---- MODULE Spec2Model ----
(***************************************************************************)
(* Model of src/src/components/Minter.tsx: the Minter React component.     *)
(*                                                                         *)
(* State is the component's useState cells, the wallet context value, the  *)
(* clock, the getCandyMachineState calls in flight and the position of     *)
(* every running onMint.                                                   *)
(* One action per handler or per resumption of an await.  A handler runs   *)
(* to its next await in one step, as JavaScript does.                      *)
(*                                                                         *)
(* Spec          the component.                                            *)
(* SpecClassify  the catch block of onMint applied to every raw error.     *)
(***************************************************************************)
EXTENDS Integers, Sequences, FiniteSets

VARIABLES
    now,            \* wall clock
    wallet,         \* useWallet() value of the latest render
    balance,        \* useState<number>()                       line 25
    isActive,       \* useState(false)                          line 26
    isSoldOut,      \* useState(false)                          line 27
    isMinting,      \* useState(false)                          line 28
    alertState,     \* useState<AlertState>                     line 30
    startDate,      \* useState(new Date(props.startDate))      line 36
    candyMachine,   \* useState<CandyMachine>()                 line 39
    propsStartDate, \* props.startDate                          line 19
    pendingLoads,   \* getCandyMachineState calls in flight     line 117
    lastLoaded,     \* the program state the last completed load returned
    newest,         \* the most recently started getCandyMachineState call
    att,            \* the onMint invocations, one record per slot
    rawError,       \* SpecClassify: the error handed to the catch block
    caught,         \* SpecClassify: what the catch block did with it
    poller          \* SpecPoller: one awaitTransactionSignatureConfirmation call

vars == <<now, wallet, balance, isActive, isSoldOut, isMinting, alertState,
          startDate, candyMachine, propsStartDate, pendingLoads, lastLoaded,
          newest, att, rawError, caught, poller>>

(***************************************************************************)
(* Bounds.                                                                 *)
(***************************************************************************)
MaxTime == 1
MaxLoads == 2
MaxCalls == 2
MaxMsgLen == 2
\* A representative of the error codes outside the catch block's table.
UnknownCode == 999

(***************************************************************************)
(* Program constants.                                                      *)
(***************************************************************************)
LAMPORTS_PER_SOL == 1000000000
CodeSoldOut == 311
CodeNotLive == 312
CodeNoFunds == 309

Times == 0..MaxTime

\* itemsRemaining as getCandyMachineState can report it.  The component only
\* compares it with 0 (line 119): 0 and one positive count cover it.
ItemCounts == {0, 1}
Slots == 1..MaxCalls

MsgSuccess == "Congratulations! Mint succeeded!"
MsgMintFailed == "Mint failed! Please try again!"
MsgMintingFailed == "Minting failed! Please try again!"
MsgSoldOut == "SOLD OUT!"
MsgNoFunds == "Insufficient funds to mint. Please fund your wallet."
MsgNotLive == "Minting period hasn't started yet."

(***************************************************************************)
(* Raw errors: any thrown value read through .msg, .message and .code.     *)
(* error.message is a string, modelled as a sequence of tokens so that     *)
(* indexOf can tell "absent" (-1), "at the start" (0) and "later" (> 0).   *)
(* code 0 stands for "no code"; msg "" for no (or an empty) msg.           *)
(***************************************************************************)
Tokens == {"0x138", "0x137", "0x135", "txt"}

Messages == UNION {[1..n -> Tokens] : n \in 0..MaxMsgLen}

Codes == {CodeSoldOut, CodeNotLive, CodeNoFunds, UnknownCode}

RawMsg == "raw program msg"

RawErrors ==
    {[code |-> c, msg |-> m, hasMessage |-> TRUE, message |-> s] :
        c \in Codes \cup {0}, m \in {"", RawMsg}, s \in Messages}
    \cup
    {[code |-> c, msg |-> m, hasMessage |-> FALSE, message |-> <<>>] :
        c \in Codes \cup {0}, m \in {"", RawMsg}}

NoError == [code |-> 0, msg |-> "", hasMessage |-> FALSE, message |-> <<>>]

\* String.prototype.indexOf at token granularity: 0-based, -1 when absent.
IndexOf(s, tok) ==
    IF \E i \in 1..Len(s) : s[i] = tok
    THEN (CHOOSE i \in 1..Len(s) :
              s[i] = tok /\ \A j \in 1..(i - 1) : s[j] # tok) - 1
    ELSE -1

\* JavaScript truthiness of a number.
Truthy(n) == n # 0

NotCaught == [done |-> FALSE, threw |-> FALSE, message |-> "", soldOut |-> FALSE]

\* The message the catch block picks when error.msg is falsy (lines 67-72).
\* The catch block reads error.message.indexOf: a TypeError when there is no
\* message, which CatchBlock reports as threw.
MessageBranch(error) ==
    IF Truthy(IndexOf(error.message, "0x138")) THEN MsgMintingFailed
    ELSE IF Truthy(IndexOf(error.message, "0x137")) THEN MsgSoldOut
    ELSE IF Truthy(IndexOf(error.message, "0x135")) THEN MsgNoFunds
    ELSE MsgMintingFailed

\* The message and setIsSoldOut of the branch where error.msg is truthy
\* (lines 74-79).
CodeBranch(error) ==
    IF error.code = CodeSoldOut THEN [message |-> MsgSoldOut, soldOut |-> TRUE]
    ELSE IF error.code = CodeNotLive THEN [message |-> MsgNotLive, soldOut |-> FALSE]
    ELSE [message |-> error.msg, soldOut |-> FALSE]

\* The catch block of onMint up to (not including) its setAlertState.
CatchBlock(error) ==
    IF error.msg = ""
    THEN IF ~error.hasMessage
         THEN [done |-> TRUE, threw |-> TRUE, message |-> "", soldOut |-> FALSE]
         ELSE [done |-> TRUE, threw |-> FALSE,
               message |-> MessageBranch(error), soldOut |-> FALSE]
    ELSE [done |-> TRUE, threw |-> FALSE,
          message |-> CodeBranch(error).message,
          soldOut |-> CodeBranch(error).soldOut]

(***************************************************************************)
(* The wallet context value, the candy machine and the loaded state.       *)
(***************************************************************************)
NoWallet == [connected |-> FALSE, publicKey |-> "", canSign |-> FALSE]

ConnectedWallets ==
    {[connected |-> TRUE, publicKey |-> "pk", canSign |-> s] : s \in BOOLEAN}

NoCandyMachine == [program |-> FALSE]

NotLoaded == [loaded |-> FALSE, goLiveDate |-> 0, itemsRemaining |-> 0]

\* The most recently started load: in flight (pending), resolved (done, with
\* what it resolved with), rejected (failed), or none started.
NoLoad ==
    [pending |-> FALSE, done |-> FALSE, failed |-> FALSE,
     goLiveDate |-> 0, itemsRemaining |-> 0]

StartedLoad == [NoLoad EXCEPT !.pending = TRUE]

NoBalance == [defined |-> FALSE, sol |-> 0]

\* What connection.getBalance can return, in lamports.  The component only
\* stores the value: one balance covers it.
Lamports == {LAMPORTS_PER_SOL}

NoAlert == [open |-> FALSE, message |-> "", severity |-> "undefined"]

\* Variant of Disabled that forgets the in-flight flag.
DisabledIgnoresMinting == isSoldOut \/ ~isActive

\* The Button's disabled attribute.
Disabled == isSoldOut \/ isMinting \/ ~isActive

\* Variant of Gate that looks at the countdown before the supply.
GateTimeFirst ==
    IF isActive THEN "Active"
    ELSE IF isSoldOut THEN "SoldOut"
    ELSE "NotStarted"

\* What the Button shows: the component's gate decision.
Gate ==
    IF isSoldOut THEN "SoldOut"
    ELSE IF isActive THEN "Active"
    ELSE "NotStarted"

\* The Countdown is rendered: wallet connected, not sold out, not active.
CountdownMounted(w, soldOut, active) == w.connected /\ ~soldOut /\ ~active

\* react-countdown's completed: the date is reached.
CountdownCompleted(date, t) == t >= date

\* isActive after the render that follows a step: a mounted Countdown whose
\* date is reached calls setIsActive(true) (onMount or onComplete); nothing
\* ever calls setIsActive(false).
AfterRender(active, w, soldOut, date, t) ==
    active \/ (CountdownMounted(w, soldOut, active) /\ CountdownCompleted(date, t))

\* setIsSoldOut's argument on load.
SoldOutOnLoad(itemsRemaining) == itemsRemaining = 0

(***************************************************************************)
(* The gate rule the component is measured against: the decision for a     *)
(* loaded program state at time t.                                         *)
(***************************************************************************)
Evaluate(t, state) ==
    IF state.itemsRemaining = 0 THEN "SoldOut"
    ELSE IF t < state.goLiveDate THEN "NotStarted"
    ELSE "Active"

(***************************************************************************)
(* onMint invocations.  pc is the await the invocation is suspended at:    *)
(* idle (no invocation in the slot), mintOneToken, awaitConfirmation,      *)
(* getBalance, and the terminal resolved / rejected.  The other fields     *)
(* record what the invocation has done so far: sub is how its mintOneToken *)
(* call stands (pending, returned, threw), polls the number of calls of    *)
(* awaitTransactionSignatureConfirmation.                                  *)
(***************************************************************************)
Idle ==
    [pc |-> "idle", pk |-> "", gate |-> "", submits |-> 0, refreshes |-> 0,
     setBalances |-> 0, alerts |-> 0, poll |-> "", pollErr |-> 0,
     shown |-> "", threw |-> FALSE, sub |-> "", polls |-> 0]

InFlight(a) == a.pc \in {"mintOneToken", "awaitConfirmation", "getBalance"}

Terminal(a) == a.pc \in {"resolved", "rejected"}

\* The precondition of the try block, on the render onMint closed over.
CanMint(w, cm) == w.connected /\ cm.program /\ w.publicKey # ""

\* Variant of FinallyStart with the refresh at the end of the try block: it
\* is skipped when the catch block ran.
FinallyStartInTry(a) ==
    IF a.pk # "" /\ a.poll \in {"Confirmed", "FailedOnChain", "TimedOut"}
    THEN [a EXCEPT !.pc = "getBalance", !.refreshes = @ + 1]
    ELSE [a EXCEPT !.pc = IF a.threw THEN "rejected" ELSE "resolved"]

\* The finally block up to its await: with a public key it calls getBalance
\* and suspends, without one it falls through to setIsMinting(false).
FinallyStart(a) ==
    IF a.pk # ""
    THEN [a EXCEPT !.pc = "getBalance", !.refreshes = @ + 1]
    ELSE [a EXCEPT !.pc = IF a.threw THEN "rejected" ELSE "resolved"]

(***************************************************************************)
(* The confirmation poller, awaitTransactionSignatureConfirmation of       *)
(* ../candy-machine, called at line 47 with props.txTimeout.  Its state    *)
(* machine: Pending, then on each poll tick a status query; success gives  *)
(* Confirmed, a program error gives FailedOnChain, a status not yet landed *)
(* gives TimedOut once the elapsed time has reached timeoutMs, and         *)
(* otherwise the poller stays Pending for one poll interval.               *)
(***************************************************************************)
MaxTimeout == 6
MaxInterval == 3

\* What one status query reports.
SignatureStatuses == {"notLanded", "success", "programError"}

\* No call has been made.
NoPoller ==
    [state |-> "idle", timeoutMs |-> 0, pollIntervalMs |-> 0, elapsed |-> 0,
     polls |-> 0]

\* The call has been made: Pending, at the time of submission.
StartedPoller(timeoutMs, pollIntervalMs) ==
    [state |-> "Pending", timeoutMs |-> timeoutMs,
     pollIntervalMs |-> pollIntervalMs, elapsed |-> 0, polls |-> 0]

\* A deadline counted in polls instead of elapsed time.
ExpiredByPollCount(p) == p.polls >= p.timeoutMs

\* The deadline: the elapsed time has reached timeoutMs.
Expired(p) == p.elapsed >= p.timeoutMs

\* One poll tick of a Pending poller whose query reports status.
PollOnce(p, status) ==
    CASE status = "success" ->
            [p EXCEPT !.state = "Confirmed", !.polls = @ + 1]
      [] status = "programError" ->
            [p EXCEPT !.state = "FailedOnChain", !.polls = @ + 1]
      [] OTHER ->
            IF Expired(p)
            THEN [p EXCEPT !.state = "TimedOut", !.polls = @ + 1]
            ELSE [p EXCEPT !.elapsed = @ + p.pollIntervalMs, !.polls = @ + 1]

\* isMinting once the finally block has run to its await or its end.
MintingAfter(f, minting) == IF Terminal(f) THEN FALSE ELSE minting

Init ==
    /\ now = 0
    /\ wallet = NoWallet
    /\ balance = NoBalance
    /\ isActive = FALSE
    /\ isSoldOut = FALSE
    /\ isMinting = FALSE
    /\ alertState = NoAlert
    /\ propsStartDate \in Times
    /\ startDate = propsStartDate
    /\ candyMachine = NoCandyMachine
    /\ pendingLoads = 0
    /\ lastLoaded = NotLoaded
    /\ newest = NoLoad
    /\ att = [p \in Slots |-> Idle]
    /\ rawError = NoError
    /\ caught = NotCaught
    /\ poller = NoPoller

\* The clock advances; a mounted Countdown completes when its date is reached.
Tick ==
    /\ now < MaxTime
    /\ now' = now + 1
    /\ isActive' = AfterRender(isActive, wallet, isSoldOut, startDate, now')
    /\ UNCHANGED <<wallet, balance, isSoldOut, isMinting, alertState, startDate,
                   candyMachine, propsStartDate, pendingLoads,
                   lastLoaded, newest, att, rawError, caught, poller>>

\* The wallet connects: the state-load effect runs with the new wallet.
Connect(w) ==
    /\ ~wallet.connected
    /\ pendingLoads < MaxLoads
    /\ wallet' = w
    /\ pendingLoads' = IF w.canSign THEN pendingLoads + 1 ELSE pendingLoads
    /\ newest' = IF w.canSign THEN StartedLoad ELSE newest
    /\ isActive' = AfterRender(isActive, w, isSoldOut, startDate, now)
    /\ UNCHANGED <<now, balance, isSoldOut, isMinting, alertState, startDate,
                   candyMachine, propsStartDate, lastLoaded, att, rawError,
                   caught, poller>>

\* The wallet disconnects: the state-load effect runs and returns at once.
Disconnect ==
    /\ wallet.connected
    /\ wallet' = NoWallet
    /\ UNCHANGED <<now, balance, isActive, isSoldOut, isMinting, alertState,
                   startDate, candyMachine, propsStartDate, pendingLoads,
                   lastLoaded, newest, att, rawError, caught, poller>>

\* The in-flight loads that completion can pick: the most recently started
\* one (isNewest) or one started before it.
LoadInFlight(isNewest) ==
    IF isNewest
    THEN newest.pending
    ELSE pendingLoads > (IF newest.pending THEN 1 ELSE 0)

\* getCandyMachineState resolves with { candyMachine, goLiveDate, itemsRemaining }.
LoadReturns(isNewest, goLiveDate, itemsRemaining) ==
    /\ LoadInFlight(isNewest)
    /\ pendingLoads' = pendingLoads - 1
    /\ isSoldOut' = SoldOutOnLoad(itemsRemaining)
    /\ startDate' = goLiveDate
    /\ candyMachine' = [program |-> TRUE]
    /\ lastLoaded' = [loaded |-> TRUE, goLiveDate |-> goLiveDate,
                      itemsRemaining |-> itemsRemaining]
    /\ newest' = IF isNewest
                 THEN [pending |-> FALSE, done |-> TRUE, failed |-> FALSE,
                       goLiveDate |-> goLiveDate,
                       itemsRemaining |-> itemsRemaining]
                 ELSE newest
    /\ isActive' = AfterRender(isActive, wallet, isSoldOut', startDate', now)
    /\ UNCHANGED <<now, wallet, balance, isMinting, alertState, propsStartDate,
                   att, rawError, caught, poller>>

\* getCandyMachineState rejects: the effect's promise rejects, nothing is set.
LoadThrows(isNewest) ==
    /\ LoadInFlight(isNewest)
    /\ pendingLoads' = pendingLoads - 1
    /\ newest' = IF isNewest THEN [NoLoad EXCEPT !.failed = TRUE] ELSE newest
    /\ UNCHANGED <<now, wallet, balance, isActive, isSoldOut, isMinting,
                   alertState, startDate, candyMachine, propsStartDate,
                   lastLoaded, att, rawError, caught, poller>>

(***************************************************************************)
(* onMint.                                                                 *)
(***************************************************************************)
\* What every onMint step leaves alone.
MintFrame ==
    UNCHANGED <<now, wallet, startDate, candyMachine, propsStartDate,
                pendingLoads, lastLoaded, newest, rawError, caught,
                poller>>

\* A click on the enabled Button: onMint runs to its first await.  The Button
\* exists only while the wallet is connected.  The invocation takes the
\* first free slot, once the settled promises have been dropped.
OnMint(p) ==
    /\ wallet.connected
    /\ ~Disabled
    /\ att[p].pc = "idle"
    /\ \A q \in Slots : q < p => att[q].pc # "idle"
    /\ \A q \in Slots : ~Terminal(att[q])
    /\ LET started == [Idle EXCEPT
                          !.pk = wallet.publicKey,
                          !.gate = IF lastLoaded.loaded
                                   THEN Evaluate(now, lastLoaded)
                                   ELSE "NoState"]
           entered == [started EXCEPT !.pc = "mintOneToken", !.submits = 1,
                                      !.sub = "pending"]
           skipped == FinallyStart(started)
       IN  IF CanMint(wallet, candyMachine)
           THEN /\ att' = [att EXCEPT ![p] = entered]
                /\ isMinting' = TRUE
           ELSE /\ att' = [att EXCEPT ![p] = skipped]
                /\ isMinting' = MintingAfter(skipped, TRUE)
    /\ UNCHANGED <<balance, isActive, isSoldOut, alertState>>
    /\ MintFrame

\* mintOneToken resolves with a transaction id: the poller is called.
MintOneTokenReturns(p) ==
    /\ att[p].pc = "mintOneToken"
    /\ att' = [att EXCEPT ![p].pc = "awaitConfirmation",
                          ![p].sub = "returned",
                          ![p].polls = @ + 1]
    /\ UNCHANGED <<balance, isActive, isSoldOut, isMinting, alertState>>
    /\ MintFrame

\* What the catch block can do, over all raw errors.
CatchResults == {CatchBlock(error) : error \in RawErrors}

\* Variant of Catch that sends the transaction again after a submission
\* error.
CatchRetries(p, a, c) ==
    /\ att' = [att EXCEPT ![p] = [a EXCEPT !.pc = "mintOneToken",
                                           !.sub = "pending",
                                           !.submits = @ + 1]]
    /\ UNCHANGED <<balance, isActive, isSoldOut, isMinting, alertState>>
    /\ MintFrame

\* An await of the try block rejected and the catch block did c with the
\* error: its setAlertState runs, then the finally block to its await.  A
\* catch block that throws sets no alert.
Catch(p, a, c) ==
    LET handled == IF c.threw
                   THEN [a EXCEPT !.threw = TRUE]
                   ELSE [a EXCEPT !.alerts = @ + 1, !.shown = c.message]
        f == FinallyStart(handled)
    IN  /\ att' = [att EXCEPT ![p] = f]
        /\ alertState' = IF c.threw
                         THEN alertState
                         ELSE [open |-> TRUE, message |-> c.message,
                               severity |-> "error"]
        /\ isSoldOut' = (isSoldOut \/ c.soldOut)
        /\ isMinting' = MintingAfter(f, isMinting)
        /\ isActive' = AfterRender(isActive, wallet, isSoldOut', startDate, now)
        /\ UNCHANGED balance
        /\ MintFrame

\* Variant of MintOneTokenThrows that swallows the error and goes on to poll.
MintOneTokenThrowsThenPolls(p) ==
    /\ att[p].pc = "mintOneToken"
    /\ att' = [att EXCEPT ![p].pc = "awaitConfirmation",
                          ![p].sub = "threw",
                          ![p].polls = @ + 1]
    /\ UNCHANGED <<balance, isActive, isSoldOut, isMinting, alertState>>
    /\ MintFrame

\* mintOneToken rejects.
MintOneTokenThrows(p) ==
    /\ att[p].pc = "mintOneToken"
    /\ \E c \in CatchResults : Catch(p, [att[p] EXCEPT !.sub = "threw"], c)

\* What awaitTransactionSignatureConfirmation can resolve with: null or
\* undefined (present = FALSE), or a status whose err is null (0) or the
\* program's error.
Statuses ==
    {[present |-> FALSE, err |-> 0]}
    \cup {[present |-> TRUE, err |-> e] : e \in Codes \cup {0}}

\* status?.err
StatusErr(status) == status.present /\ status.err # 0

\* The alert of lines 49-61.
StatusAlert(status) ==
    IF ~StatusErr(status)
    THEN [open |-> TRUE, message |-> MsgSuccess, severity |-> "success"]
    ELSE [open |-> TRUE, message |-> MsgMintFailed, severity |-> "error"]

\* How the poller ended, read off the status it resolved with.
PollOutcome(status) ==
    IF ~status.present THEN "TimedOut"
    ELSE IF status.err = 0 THEN "Confirmed"
    ELSE "FailedOnChain"

\* awaitTransactionSignatureConfirmation resolves with status.
ConfirmationReturns(p) ==
    /\ att[p].pc = "awaitConfirmation"
    /\ \E status \in Statuses :
         LET alerted == [att[p] EXCEPT
                            !.poll = PollOutcome(status),
                            !.pollErr = status.err,
                            !.alerts = @ + 1,
                            !.shown = StatusAlert(status).message]
             f == FinallyStart(alerted)
         IN  /\ att' = [att EXCEPT ![p] = f]
             /\ alertState' = StatusAlert(status)
             /\ isMinting' = MintingAfter(f, isMinting)
    /\ UNCHANGED <<balance, isActive, isSoldOut>>
    /\ MintFrame

\* awaitTransactionSignatureConfirmation rejects.
ConfirmationThrows(p) ==
    /\ att[p].pc = "awaitConfirmation"
    /\ \E c \in CatchResults :
         Catch(p, [att[p] EXCEPT !.poll = "Threw"], c)

\* The finally block's getBalance resolves: setBalance, setIsMinting(false).
\* An invocation whose catch block threw then rejects with that error.
GetBalanceReturns(p) ==
    /\ att[p].pc = "getBalance"
    /\ \E l \in Lamports :
         balance' = [defined |-> TRUE, sol |-> l \div LAMPORTS_PER_SOL]
    /\ att' = [att EXCEPT ![p].pc = IF att[p].threw THEN "rejected" ELSE "resolved",
                          ![p].setBalances = @ + 1]
    /\ isMinting' = FALSE
    /\ UNCHANGED <<isActive, isSoldOut, alertState>>
    /\ MintFrame

\* The finally block's getBalance rejects: onMint rejects before
\* setIsMinting(false).
GetBalanceThrows(p) ==
    /\ att[p].pc = "getBalance"
    /\ att' = [att EXCEPT ![p].pc = "rejected", ![p].threw = TRUE]
    /\ UNCHANGED <<balance, isActive, isSoldOut, isMinting, alertState>>
    /\ MintFrame

\* The settled promise of a finished invocation is dropped.
Return(p) ==
    /\ Terminal(att[p])
    /\ att' = [att EXCEPT ![p] = Idle]
    /\ UNCHANGED <<balance, isActive, isSoldOut, isMinting, alertState>>
    /\ MintFrame

Next ==
    \/ Tick
    \/ \E w \in ConnectedWallets : Connect(w)
    \/ Disconnect
    \/ \E isNewest \in BOOLEAN, d \in Times, n \in ItemCounts :
          LoadReturns(isNewest, d, n)
    \/ \E isNewest \in BOOLEAN : LoadThrows(isNewest)
    \/ \E p \in Slots : OnMint(p)
    \/ \E p \in Slots : MintOneTokenReturns(p)
    \/ \E p \in Slots : MintOneTokenThrows(p)
    \/ \E p \in Slots : ConfirmationReturns(p)
    \/ \E p \in Slots : ConfirmationThrows(p)
    \/ \E p \in Slots : GetBalanceReturns(p)
    \/ \E p \in Slots : GetBalanceThrows(p)
    \/ \E p \in Slots : Return(p)

Spec == Init /\ [][Next]_vars

(***************************************************************************)
(* SpecClassify: the catch block applied to each raw error.                *)
(***************************************************************************)
InitClassify ==
    /\ now = 0
    /\ wallet = NoWallet
    /\ balance = NoBalance
    /\ isActive = FALSE
    /\ isSoldOut = FALSE
    /\ isMinting = FALSE
    /\ alertState = NoAlert
    /\ propsStartDate = 0
    /\ startDate = 0
    /\ candyMachine = NoCandyMachine
    /\ pendingLoads = 0
    /\ lastLoaded = NotLoaded
    /\ newest = NoLoad
    /\ att = [p \in Slots |-> Idle]
    /\ rawError \in RawErrors
    /\ caught = NotCaught
    /\ poller = NoPoller

Classify ==
    /\ ~caught.done
    /\ caught' = CatchBlock(rawError)
    /\ alertState' = IF caught'.threw
                     THEN alertState
                     ELSE [open |-> TRUE, message |-> caught'.message,
                           severity |-> "error"]
    /\ isSoldOut' = (isSoldOut \/ caught'.soldOut)
    /\ UNCHANGED <<now, wallet, balance, isActive, isMinting, startDate,
                   candyMachine, propsStartDate, pendingLoads,
                   lastLoaded, newest, att, rawError, poller>>

NextClassify == Classify

SpecClassify == InitClassify /\ [][NextClassify]_vars

(***************************************************************************)
(* SpecPoller: one confirmation wait, for each timeout and poll interval.  *)
(***************************************************************************)
InitPoller ==
    /\ now = 0
    /\ wallet = NoWallet
    /\ balance = NoBalance
    /\ isActive = FALSE
    /\ isSoldOut = FALSE
    /\ isMinting = FALSE
    /\ alertState = NoAlert
    /\ propsStartDate = 0
    /\ startDate = 0
    /\ candyMachine = NoCandyMachine
    /\ pendingLoads = 0
    /\ lastLoaded = NotLoaded
    /\ newest = NoLoad
    /\ att = [p \in Slots |-> Idle]
    /\ rawError = NoError
    /\ caught = NotCaught
    /\ \E timeoutMs \in 1..MaxTimeout, pollIntervalMs \in 1..MaxInterval :
           poller = StartedPoller(timeoutMs, pollIntervalMs)

PollerFrame ==
    UNCHANGED <<now, wallet, balance, isActive, isSoldOut, isMinting,
                alertState, startDate, candyMachine, propsStartDate,
                pendingLoads, lastLoaded, newest, att, rawError, caught>>

\* A poll tick whose query reports a landed status.
PollLanded(status) ==
    /\ poller.state = "Pending"
    /\ poller' = PollOnce(poller, status)
    /\ PollerFrame

\* A poll tick whose query reports nothing landed, or is not answered.
PollNotLanded ==
    /\ poller.state = "Pending"
    /\ poller' = PollOnce(poller, "notLanded")
    /\ PollerFrame

NextPoller ==
    \/ \E status \in {"success", "programError"} : PollLanded(status)
    \/ PollNotLanded

\* The tick loop runs on a timer: a Pending poller always takes its next tick.
SpecPoller == InitPoller /\ [][NextPoller]_vars /\ WF_vars(NextPoller)

(***************************************************************************)
(* Properties.                                                             *)
(***************************************************************************)
\* The category a displayed message stands for.
Category(text) ==
    CASE text = MsgSuccess -> "Success"
      [] text = MsgSoldOut -> "SoldOut"
      [] text = MsgNotLive -> "NotYetLive"
      [] text = MsgNoFunds -> "InsufficientFunds"
      [] OTHER -> "Unknown"

AttemptsInFlight == {p \in Slots : InFlight(att[p])}

C2_OneBalanceRefresh ==
    \A p \in Slots :
        /\ att[p].refreshes <= 1
        /\ att[p].setBalances <= att[p].refreshes
        /\ att[p].pc \in {"mintOneToken", "awaitConfirmation"} => att[p].refreshes = 0
        /\ Terminal(att[p]) => att[p].refreshes = 1
        /\ att[p].pc = "resolved" => att[p].setBalances = 1

\* C2 witness: an invocation whose submission was rejected has finished with
\* one balance refresh.
C2_Witness ==
    \E p \in Slots :
        /\ att[p].pc = "resolved"
        /\ att[p].submits = 1 /\ att[p].poll = "" /\ att[p].alerts = 1
        /\ att[p].refreshes = 1 /\ att[p].setBalances = 1

\* C3: with a connected wallet and a loaded program state that has items
\* remaining, the gate is NotStarted (Button disabled) while now is before the
\* loaded go-live time and Active from the go-live time on.
C3_TimeGate ==
    (wallet.connected /\ lastLoaded.loaded /\ lastLoaded.itemsRemaining > 0)
        => IF now < lastLoaded.goLiveDate
           THEN Gate = "NotStarted" /\ Disabled
           ELSE Gate = "Active"

\* C4: whenever the most recently loaded program state has no items
\* remaining, the gate decision is SoldOut and the Button is disabled,
\* whatever the time and whether or not the countdown has completed.
C4_SoldOutPrecedence ==
    (lastLoaded.loaded /\ lastLoaded.itemsRemaining = 0)
        => (Gate = "SoldOut" /\ Disabled)

\* C4 witness: the loaded state has no items remaining while the countdown
\* has completed and the go-live time is reached.
C4_Witness ==
    /\ wallet.connected /\ lastLoaded.loaded /\ lastLoaded.itemsRemaining = 0
    /\ isActive /\ now >= lastLoaded.goLiveDate

\* C5: an invocation calls the submitter only if the gate decision for the
\* latest loaded program state was Active when it was invoked.
C5_NoDoomedSubmission ==
    \A p \in Slots : att[p].submits > 0 => att[p].gate = "Active"

\* The codes of the known table.
KnownCodes == {CodeSoldOut, CodeNotLive, CodeNoFunds}

\* The alert carries the error's own text: error.msg is the only text of the
\* error that the catch block ever puts into the alert.
ShowsOriginal(error, alert) ==
    alert.open /\ error.msg # "" /\ alert.message = error.msg

\* C6: classification of any raw error completes without throwing, and an
\* error whose code is not in the known table is shown with its original
\* message.
C6_ClassifierTotal ==
    caught.done =>
        /\ ~caught.threw
        /\ rawError.code \notin KnownCodes => ShowsOriginal(rawError, alertState)

\* C7: the category depends on the code alone: supply exhausted gives SoldOut,
\* mint window not open gives NotYetLive, balance shortfall gives
\* InsufficientFunds, whatever msg and message hold.
C7_CodeIdentity ==
    caught.done =>
        /\ rawError.code \in KnownCodes => ~caught.threw
        /\ rawError.code = CodeSoldOut => Category(caught.message) = "SoldOut"
        /\ rawError.code = CodeNotLive => Category(caught.message) = "NotYetLive"
        /\ rawError.code = CodeNoFunds => Category(caught.message) = "InsufficientFunds"

\* C8: an on-chain rejection with the supply-exhausted code, reported by the
\* poller's status, gives the outcome SoldOut.
C8_OnChainSoldOut ==
    \A p \in Slots :
        (att[p].poll = "FailedOnChain" /\ att[p].pollErr = CodeSoldOut)
            => Category(att[p].shown) = "SoldOut"

\* C9: a poll that ends without a landed status is reported neither as
\* success nor as a failed mint.
C9_TimeoutNotSuccess ==
    \A p \in Slots :
        att[p].poll = "TimedOut"
            => att[p].shown \notin {MsgSuccess, MsgMintFailed, MsgMintingFailed}

\* C10: every invocation that has finished has set exactly one alert.
C10_OneNotification ==
    \A p \in Slots : Terminal(att[p]) => att[p].alerts = 1

\* C11: within one invocation the submitter has returned before the poller
\* is called, the poller has returned before any alert is set for an attempt
\* that was submitted, and the poller is never called once the submission
\* has thrown.
C11_Ordering ==
    \A p \in Slots :
        /\ att[p].polls > 0 => att[p].sub = "returned"
        /\ att[p].sub = "threw" => (att[p].polls = 0 /\ att[p].poll = "")
        /\ att[p].pc \in {"mintOneToken", "awaitConfirmation"}
              => (att[p].alerts = 0 /\ att[p].shown = "" /\ att[p].poll = "")
        /\ (att[p].alerts > 0 /\ att[p].sub = "returned") => att[p].poll # ""

\* C11 witness: an invocation submitted, polled, and set its alert after the
\* poller returned a status.
C11_Witness ==
    \E p \in Slots :
        /\ att[p].sub = "returned" /\ att[p].polls = 1
        /\ att[p].poll = "Confirmed" /\ att[p].alerts = 1

\* C12: an invocation calls mintOneToken at most once, and not again after
\* a submission error, an on-chain failure or a timeout.
C12_SubmitOnce ==
    \A p \in Slots :
        /\ att[p].submits <= 1
        /\ att[p].pc = "mintOneToken" => att[p].alerts = 0 /\ att[p].sub = "pending"

\* C12 witness: an invocation whose submission threw has finished having
\* called mintOneToken once.
C12_Witness ==
    \E p \in Slots :
        Terminal(att[p]) /\ att[p].sub = "threw" /\ att[p].submits = 1

\* C13: when getCandyMachineState has rejected and no program state has been
\* loaded, an error is surfaced and minting is not enabled on the defaults
\* (isSoldOut = false, the startDate prop as go-live time).
C13_LoadFailureSurfaced ==
    (newest.failed /\ ~lastLoaded.loaded)
        => /\ alertState.open /\ alertState.severity = "error"
           /\ wallet.connected => Disabled

\* C14: confirmation polling always terminates.  A poller does not stay
\* Pending for ever; while it is Pending less than timeoutMs plus one poll
\* interval has elapsed since submission; and when no landed status is ever
\* reported it ends TimedOut no earlier than timeoutMs and no later than
\* timeoutMs plus one poll interval after submission, whatever the number of
\* polls that took.
C14_PollingTerminates ==
    /\ <>(poller.state \in {"Confirmed", "FailedOnChain", "TimedOut"})
    /\ [](poller.state = "Pending"
            => poller.elapsed < poller.timeoutMs + poller.pollIntervalMs)
    /\ [](poller.state = "TimedOut"
            => /\ poller.elapsed >= poller.timeoutMs
               /\ poller.elapsed <= poller.timeoutMs + poller.pollIntervalMs)

\* C14 witness: a poller that never saw a landed status has ended TimedOut
\* after several polls, later than timeoutMs because the poll interval does
\* not divide it.
C14_Witness ==
    /\ poller.state = "TimedOut"
    /\ poller.polls > 2
    /\ poller.pollIntervalMs > 1
    /\ poller.elapsed > poller.timeoutMs

\* C15: once no invocation is in flight, isMinting is false: every finished
\* invocation has released the in-flight flag, on every branch.
C15_FlagReleased ==
    AttemptsInFlight = {} => ~isMinting

\* C16: the success alert is set only after the poller returned a status
\* that reports the transaction confirmed without error.
C16_SuccessOnlyConfirmed ==
    \A p \in Slots : att[p].shown = MsgSuccess => att[p].poll = "Confirmed"

\* C17: once no load is in flight and the most recently started load has
\* resolved, startDate and the loaded program state are the ones that load
\* resolved with.
C17_NewestLoadWins ==
    (pendingLoads = 0 /\ newest.done)
        => /\ startDate = newest.goLiveDate
           /\ lastLoaded.loaded
           /\ lastLoaded.goLiveDate = newest.goLiveDate
           /\ lastLoaded.itemsRemaining = newest.itemsRemaining
           /\ candyMachine.program

====
